---- MODULE Spec2Model ----
(***************************************************************************)
(* Model of the lazy-third-party audit of Lighthouse                       *)
(* (lighthouse-core/audits/lazy-third-party.js): the per-URL summaries of  *)
(* a page load are grouped per entity and per facadable product in two     *)
(* passes, then summed, sorted and reported.                               *)
(***************************************************************************)
EXTENDS Integers, Sequences, FiniteSets, TLC

VARIABLES networkRecords, byURL, pc, i, entitySummaries, auditProduct,
          artifacts, mainResource, graph, lcpUrl

vars == <<networkRecords, byURL, pc, i, entitySummaries, auditProduct,
          artifacts, mainResource, graph, lcpUrl>>

\* what the lazy-third-party audit does not touch
lazyFrame == <<artifacts, mainResource, graph, lcpUrl>>

(***************************************************************************)
(* Bounds of the model.                                                    *)
(***************************************************************************)
\* longest network log explored
MaxReq == 3
\* longest delay between a request's start and the end of its headers
MaxDelta == 2

(***************************************************************************)
(* JavaScript values.  NaN stands for undefined and NaN alike: both make   *)
(* every < comparison false and make Math.min return NaN.                  *)
(***************************************************************************)
None == "none"
NaN == -1
Infinity == 1000

\* a < b of JavaScript on numbers, false as soon as one side is undefined/NaN
JsLess(a, b) == a # NaN /\ b # NaN /\ a < b

\* Math.min(a, b)
MathMin(a, b) == IF a = NaN \/ b = NaN THEN NaN ELSE IF a < b THEN a ELSE b

(***************************************************************************)
(* The classification data (third-party-web): entity, product and facades  *)
(* of a url.  The page under audit is pM, itself a facadable product of    *)
(* the entity Main; x is a url no entity is known for.                     *)
(***************************************************************************)
URLs == {"pM", "pA1", "pA2", "pB", "rE1", "qE1", "pC", "x"}

finalUrl == "pM"

getEntity(url) ==
  CASE url = "pM" -> "Main"
    [] url \in {"pA1", "pA2", "pB", "rE1", "qE1"} -> "E1"
    [] url = "pC" -> "E2"
    [] OTHER -> None

getProduct(url) ==
  CASE url = "pM" -> "Main Widget"
    [] url \in {"pA1", "pA2"} -> "Product A"
    [] url = "pB" -> "Product B"
    [] url = "qE1" -> "Product Q"
    [] url = "pC" -> "Product C"
    [] OTHER -> None

\* product.facades, each facade a [name, repo]
Facades(product) ==
  CASE product = "Main Widget" -> <<[name |-> "Lite Main", repo |-> "repo/lite-main"]>>
    [] product = "Product A" -> <<[name |-> "Lite A", repo |-> "repo/lite-a"],
                                  [name |-> "Other A", repo |-> "repo/other-a"]>>
    [] product = "Product B" -> <<[name |-> "Lite B", repo |-> "repo/lite-b"]>>
    [] product = "Product C" -> <<[name |-> "Lite C", repo |-> "repo/lite-c"]>>
    [] OTHER -> <<>>

isFirstParty(url, mainEnt) == getEntity(url) = None \/ getEntity(url) = mainEnt

mainEntity == getEntity(finalUrl)

\* product && product.facades && product.facades.length
hasFacade(url) == getProduct(url) # None /\ Len(Facades(getProduct(url))) > 0

(***************************************************************************)
(* The network log: request k starts at time k, its headers end Delta      *)
(* later and its body one tick after that.                                 *)
(***************************************************************************)
Deltas == {0, MaxDelta}

SizeOf(url) ==
  CASE url = "pM" -> 2000
    [] url = "pA1" -> 4000
    [] url = "pA2" -> 500
    [] url = "pB" -> 4000
    [] url = "rE1" -> 8000
    [] url = "qE1" -> 300
    [] url = "pC" -> 3000
    [] OTHER -> 2000

\* main-thread blocking time attributed to the url by the trace's tasks
BlockingOf(url) ==
  CASE url = "pA1" -> 10
    [] url = "rE1" -> 30
    [] url = "qE1" -> 5
    [] OTHER -> 0

resourceEntry(startTime, headerEndTime, endTime, transferSize, url) ==
  [url |-> url, startTime |-> startTime, headerEndTime |-> headerEndTime,
   endTime |-> endTime, transferSize |-> transferSize]

\* the log of the requests to the urls u with the header delays d
Log(u, d) ==
  [k \in DOMAIN u |-> resourceEntry(k, k + d[k], k + d[k] + 1, SizeOf(u[k]), u[k])]

(***************************************************************************)
(* Insertion-ordered maps (JavaScript Map) as sequences of [key, value].   *)
(***************************************************************************)
MapHas(m, k) == \E j \in 1..Len(m) : m[j].key = k

MapIndex(m, k) == CHOOSE j \in 1..Len(m) : m[j].key = k

MapGet(m, k) == m[MapIndex(m, k)].value

\* Map.prototype.set: an existing key keeps its position
MapSet(m, k, v) ==
  IF MapHas(m, k)
  THEN [m EXCEPT ![MapIndex(m, k)] = [key |-> k, value |-> v]]
  ELSE Append(m, [key |-> k, value |-> v])

MapKeys(m) == {m[j].key : j \in 1..Len(m)}

(***************************************************************************)
(* ThirdPartySummary.getSummaries: one summary per url, in the order of    *)
(* first appearance; the timing is that of the first request of the url,   *)
(* the transfer sizes of its requests are added up.                        *)
(***************************************************************************)
\* variant: a repeated fetch leaves the size of the first fetch in place
summarizeRequestFirstSize(m, request) ==
  IF MapHas(m, request.url)
  THEN m
  ELSE MapSet(m, request.url,
         [transferSize |-> request.transferSize,
          blockingTime |-> BlockingOf(request.url),
          firstStartTime |-> request.startTime,
          firstEndTime |-> request.headerEndTime])

\* variant: a repeated fetch replaces the size instead of adding to it
summarizeRequestLastSize(m, request) ==
  MapSet(m, request.url,
    [transferSize |-> request.transferSize,
     blockingTime |-> BlockingOf(request.url),
     firstStartTime |-> IF MapHas(m, request.url)
                        THEN MapGet(m, request.url).firstStartTime ELSE request.startTime,
     firstEndTime |-> IF MapHas(m, request.url)
                      THEN MapGet(m, request.url).firstEndTime ELSE request.headerEndTime])

\* variant: a repeated fetch replaces the timing of the summary
summarizeRequestLastTiming(m, request) ==
  MapSet(m, request.url,
    [transferSize |-> request.transferSize
                        + IF MapHas(m, request.url)
                          THEN MapGet(m, request.url).transferSize ELSE 0,
     blockingTime |-> BlockingOf(request.url),
     firstStartTime |-> request.startTime,
     firstEndTime |-> request.headerEndTime])

\* variant: a repeated fetch replaces the start time of the summary
summarizeRequestLastStart(m, request) ==
  MapSet(m, request.url,
    [transferSize |-> request.transferSize
                        + IF MapHas(m, request.url)
                          THEN MapGet(m, request.url).transferSize ELSE 0,
     blockingTime |-> BlockingOf(request.url),
     firstStartTime |-> request.startTime,
     firstEndTime |-> IF MapHas(m, request.url)
                      THEN MapGet(m, request.url).firstEndTime ELSE request.headerEndTime])

summarizeRequest(m, request) ==
  IF MapHas(m, request.url)
  THEN MapSet(m, request.url,
         [MapGet(m, request.url) EXCEPT !.transferSize = @ + request.transferSize])
  ELSE MapSet(m, request.url,
         [transferSize |-> request.transferSize,
          blockingTime |-> BlockingOf(request.url),
          firstStartTime |-> request.startTime,
          firstEndTime |-> request.headerEndTime])

RECURSIVE getSummaries(_)
getSummaries(records) ==
  IF records = <<>> THEN <<>>
  ELSE summarizeRequest(getSummaries(SubSeq(records, 1, Len(records) - 1)),
                        records[Len(records)])

(***************************************************************************)
(* getFacadableProductSummaries, first loop, one record.                   *)
(***************************************************************************)
newProductSummary(product) ==
  [product |-> product, cutoffTime |-> Infinity, urlSummaries |-> <<>>]

\* variant: the cutoff is taken from the start of the product's requests
pass1RecordStartCutoff(es, url, urlSummary) ==
  IF getEntity(url) = None \/ isFirstParty(url, mainEntity) THEN es
  ELSE
    LET entity == getEntity(url)
        productSummaries == IF MapHas(es, entity) THEN MapGet(es, entity) ELSE <<>>
        product == getProduct(url)
        productSummary == IF MapHas(productSummaries, product)
                          THEN MapGet(productSummaries, product)
                          ELSE newProductSummary(product)
        updated == [productSummary EXCEPT
                      !.urlSummaries = MapSet(@, url, urlSummary),
                      !.cutoffTime = MathMin(@, urlSummary.firstStartTime)]
    IN IF hasFacade(url)
       THEN MapSet(es, entity, MapSet(productSummaries, product, updated))
       ELSE MapSet(es, entity, productSummaries)

\* variant: an entity enters entitySummaries only with its first facadable product
pass1RecordLateEntity(es, url, urlSummary) ==
  IF getEntity(url) = None \/ isFirstParty(url, mainEntity) THEN es
  ELSE
    LET entity == getEntity(url)
        productSummaries == IF MapHas(es, entity) THEN MapGet(es, entity) ELSE <<>>
        product == getProduct(url)
        productSummary == IF MapHas(productSummaries, product)
                          THEN MapGet(productSummaries, product)
                          ELSE newProductSummary(product)
        updated == [productSummary EXCEPT
                      !.urlSummaries = MapSet(@, url, urlSummary),
                      !.cutoffTime = MathMin(@, urlSummary.firstEndTime)]
    IN IF hasFacade(url)
       THEN MapSet(es, entity, MapSet(productSummaries, product, updated))
       ELSE es

\* variant: the cutoff is the header time of the record seen last
pass1RecordLastCutoff(es, url, urlSummary) ==
  IF getEntity(url) = None \/ isFirstParty(url, mainEntity) THEN es
  ELSE
    LET entity == getEntity(url)
        productSummaries == IF MapHas(es, entity) THEN MapGet(es, entity) ELSE <<>>
        product == getProduct(url)
        productSummary == IF MapHas(productSummaries, product)
                          THEN MapGet(productSummaries, product)
                          ELSE newProductSummary(product)
        updated == [productSummary EXCEPT
                      !.urlSummaries = MapSet(@, url, urlSummary),
                      !.cutoffTime = urlSummary.firstEndTime]
    IN IF hasFacade(url)
       THEN MapSet(es, entity, MapSet(productSummaries, product, updated))
       ELSE MapSet(es, entity, productSummaries)

\* variant: only records without an entity are skipped
pass1RecordNoFirstPartyCheck(es, url, urlSummary) ==
  IF getEntity(url) = None THEN es
  ELSE
    LET entity == getEntity(url)
        productSummaries == IF MapHas(es, entity) THEN MapGet(es, entity) ELSE <<>>
        product == getProduct(url)
        productSummary == IF MapHas(productSummaries, product)
                          THEN MapGet(productSummaries, product)
                          ELSE newProductSummary(product)
        updated == [productSummary EXCEPT
                      !.urlSummaries = MapSet(@, url, urlSummary),
                      !.cutoffTime = MathMin(@, urlSummary.firstEndTime)]
    IN IF hasFacade(url)
       THEN MapSet(es, entity, MapSet(productSummaries, product, updated))
       ELSE MapSet(es, entity, productSummaries)

pass1Record(es, url, urlSummary) ==
  IF getEntity(url) = None \/ isFirstParty(url, mainEntity) THEN es
  ELSE
    LET entity == getEntity(url)
        productSummaries == IF MapHas(es, entity) THEN MapGet(es, entity) ELSE <<>>
        product == getProduct(url)
        productSummary == IF MapHas(productSummaries, product)
                          THEN MapGet(productSummaries, product)
                          ELSE newProductSummary(product)
        updated == [productSummary EXCEPT
                      !.urlSummaries = MapSet(@, url, urlSummary),
                      !.cutoffTime = MathMin(@, urlSummary.firstEndTime)]
    IN IF hasFacade(url)
       THEN MapSet(es, entity, MapSet(productSummaries, product, updated))
       ELSE MapSet(es, entity, productSummaries)

(***************************************************************************)
(* getFacadableProductSummaries, second loop, one record.                  *)
(***************************************************************************)
\* variant: a resource that starts exactly at the cutoff is left out
attributeStrictlyAfter(productSummary, url, urlSummary) ==
  IF urlSummary.firstStartTime <= productSummary.cutoffTime
  THEN productSummary
  ELSE [productSummary EXCEPT !.urlSummaries = MapSet(@, url, urlSummary)]

attribute(productSummary, url, urlSummary) ==
  IF JsLess(urlSummary.firstStartTime, productSummary.cutoffTime)
  THEN productSummary
  ELSE [productSummary EXCEPT !.urlSummaries = MapSet(@, url, urlSummary)]

\* variant: records without an entity and first-party records are processed too
pass2RecordNoFirstPartyCheck(es, url, urlSummary) ==
  LET entity == getEntity(url)
      productSummaries == IF MapHas(es, entity) THEN MapGet(es, entity) ELSE <<>>
      attributed == [j \in 1..Len(productSummaries) |->
                       [key |-> productSummaries[j].key,
                        value |-> attribute(productSummaries[j].value, url, urlSummary)]]
  IN IF ~hasFacade(url)
     THEN MapSet(es, entity, attributed)
     ELSE MapSet(es, entity, productSummaries)

\* variant: the sets are lists, and a record with a facade is offered to the
\* sets of its entity like any other
pass2RecordPushesAll(es, url, urlSummary) ==
  IF getEntity(url) = None \/ isFirstParty(url, mainEntity) THEN es
  ELSE
    LET entity == getEntity(url)
        productSummaries == IF MapHas(es, entity) THEN MapGet(es, entity) ELSE <<>>
        push(productSummary) ==
          IF JsLess(urlSummary.firstStartTime, productSummary.cutoffTime)
          THEN productSummary
          ELSE [productSummary EXCEPT
                  !.urlSummaries = Append(@, [key |-> url, value |-> urlSummary])]
        attributed == [j \in 1..Len(productSummaries) |->
                         [key |-> productSummaries[j].key,
                          value |-> push(productSummaries[j].value)]]
    IN MapSet(es, entity, attributed)

\* variant: the record is offered to the sets of every entity
pass2RecordAnyEntity(es, url, urlSummary) ==
  IF getEntity(url) = None \/ isFirstParty(url, mainEntity) THEN es
  ELSE
    LET entity == getEntity(url)
        registered == IF MapHas(es, entity) THEN es ELSE MapSet(es, entity, <<>>)
        attributed(productSummaries) ==
          [j \in 1..Len(productSummaries) |->
             [key |-> productSummaries[j].key,
              value |-> attribute(productSummaries[j].value, url, urlSummary)]]
    IN IF ~hasFacade(url)
       THEN [e \in 1..Len(registered) |->
               [key |-> registered[e].key, value |-> attributed(registered[e].value)]]
       ELSE registered

\* variant: one loop only, a record is offered to the sets of the products
\* that the mapping lists ahead of it
pass2RecordSeenAfterProduct(es, url, urlSummary) ==
  IF getEntity(url) = None \/ isFirstParty(url, mainEntity) THEN es
  ELSE
    LET entity == getEntity(url)
        productSummaries == IF MapHas(es, entity) THEN MapGet(es, entity) ELSE <<>>
        position(u) == CHOOSE j \in 1..Len(byURL) : byURL[j].key = u
        seen(productSummary) ==
          \E k \in 1..Len(productSummary.urlSummaries) :
            /\ hasFacade(productSummary.urlSummaries[k].key)
            /\ position(productSummary.urlSummaries[k].key) < position(url)
        attributed == [j \in 1..Len(productSummaries) |->
                         IF seen(productSummaries[j].value)
                         THEN [key |-> productSummaries[j].key,
                               value |-> attribute(productSummaries[j].value, url, urlSummary)]
                         ELSE productSummaries[j]]
    IN IF ~hasFacade(url)
       THEN MapSet(es, entity, attributed)
       ELSE MapSet(es, entity, productSummaries)

\* variant: a record with a facade is offered to the sets of its entity too
pass2RecordNoFacadeGuard(es, url, urlSummary) ==
  IF getEntity(url) = None \/ isFirstParty(url, mainEntity) THEN es
  ELSE
    LET entity == getEntity(url)
        productSummaries == IF MapHas(es, entity) THEN MapGet(es, entity) ELSE <<>>
        attributed == [j \in 1..Len(productSummaries) |->
                         [key |-> productSummaries[j].key,
                          value |-> attribute(productSummaries[j].value, url, urlSummary)]]
    IN MapSet(es, entity, attributed)

\* variant: the record goes only to the qualifying set with the latest cutoff
pass2RecordNearestProduct(es, url, urlSummary) ==
  IF getEntity(url) = None \/ isFirstParty(url, mainEntity) THEN es
  ELSE
    LET entity == getEntity(url)
        productSummaries == IF MapHas(es, entity) THEN MapGet(es, entity) ELSE <<>>
        qualifies(j) ==
          ~JsLess(urlSummary.firstStartTime, productSummaries[j].value.cutoffTime)
        nearest(j) ==
          \A l \in 1..Len(productSummaries) :
            qualifies(l) =>
              productSummaries[l].value.cutoffTime <= productSummaries[j].value.cutoffTime
        attributed == [j \in 1..Len(productSummaries) |->
                         IF nearest(j)
                         THEN [key |-> productSummaries[j].key,
                               value |-> attribute(productSummaries[j].value, url, urlSummary)]
                         ELSE productSummaries[j]]
    IN IF ~hasFacade(url)
       THEN MapSet(es, entity, attributed)
       ELSE MapSet(es, entity, productSummaries)

\* variant: the record goes to the first set of the entity it qualifies for only
pass2RecordFirstSetOnly(es, url, urlSummary) ==
  IF getEntity(url) = None \/ isFirstParty(url, mainEntity) THEN es
  ELSE
    LET entity == getEntity(url)
        productSummaries == IF MapHas(es, entity) THEN MapGet(es, entity) ELSE <<>>
        qualifies(j) ==
          ~JsLess(urlSummary.firstStartTime, productSummaries[j].value.cutoffTime)
        attributed == [j \in 1..Len(productSummaries) |->
                         IF \E l \in 1..(j - 1) : qualifies(l)
                         THEN productSummaries[j]
                         ELSE [key |-> productSummaries[j].key,
                               value |-> attribute(productSummaries[j].value, url, urlSummary)]]
    IN IF ~hasFacade(url)
       THEN MapSet(es, entity, attributed)
       ELSE MapSet(es, entity, productSummaries)

pass2Record(es, url, urlSummary) ==
  IF getEntity(url) = None \/ isFirstParty(url, mainEntity) THEN es
  ELSE
    LET entity == getEntity(url)
        productSummaries == IF MapHas(es, entity) THEN MapGet(es, entity) ELSE <<>>
        attributed == [j \in 1..Len(productSummaries) |->
                         [key |-> productSummaries[j].key,
                          value |-> attribute(productSummaries[j].value, url, urlSummary)]]
    IN IF ~hasFacade(url)
       THEN MapSet(es, entity, attributed)
       ELSE MapSet(es, entity, productSummaries)

(***************************************************************************)
(* getFacadableProductSummaries, flattening of the nested maps.            *)
(***************************************************************************)
RECURSIVE allProductSummaries(_)
allProductSummaries(es) ==
  IF es = <<>> THEN <<>>
  ELSE allProductSummaries(SubSeq(es, 1, Len(es) - 1)) \o
       [j \in 1..Len(es[Len(es)].value) |-> es[Len(es)].value[j].value]

(***************************************************************************)
(* LazyThirdParty.audit: totals, sorted sub-items, result.                 *)
(***************************************************************************)
RECURSIVE sumField(_, _)
sumField(m, field) ==
  IF m = <<>> THEN 0
  ELSE sumField(SubSeq(m, 1, Len(m) - 1), field) + m[Len(m)].value[field]

\* {url, ...urlStats}
item(entry) ==
  [url |-> entry.key, transferSize |-> entry.value.transferSize,
   blockingTime |-> entry.value.blockingTime,
   firstStartTime |-> entry.value.firstStartTime,
   firstEndTime |-> entry.value.firstEndTime]

\* variant: x goes before the elements of its own size
RECURSIVE insertSortedTiesReversed(_, _)
insertSortedTiesReversed(s, x) ==
  IF s = <<>> THEN <<x>>
  ELSE IF s[Len(s)].transferSize > x.transferSize THEN Append(s, x)
  ELSE Append(insertSortedTiesReversed(SubSeq(s, 1, Len(s) - 1), x), s[Len(s)])

\* insertion of x into a sequence sorted by decreasing transferSize, after
\* every element that does not compare greater (Array.prototype.sort is stable)
RECURSIVE insertSorted(_, _)
insertSorted(s, x) ==
  IF s = <<>> THEN <<x>>
  ELSE IF s[Len(s)].transferSize >= x.transferSize THEN Append(s, x)
  ELSE Append(insertSorted(SubSeq(s, 1, Len(s) - 1), x), s[Len(s)])

RECURSIVE sortItems(_)
sortItems(items) ==
  IF items = <<>> THEN <<>>
  ELSE insertSorted(sortItems(SubSeq(items, 1, Len(items) - 1)), items[Len(items)])

\* size below which the design folds a sub-item into "Other resources"
condenseThreshold == 1024

isLarge(it) == it.transferSize >= condenseThreshold

isSmall(it) == it.transferSize < condenseThreshold

RECURSIVE sumItems(_, _)
sumItems(items, field) ==
  IF items = <<>> THEN 0
  ELSE sumItems(SubSeq(items, 1, Len(items) - 1), field) + items[Len(items)][field]

\* variant: the totals are those of the member seen last
tableItemLastMember(productSummary) ==
  LET last == productSummary.urlSummaries[Len(productSummary.urlSummaries)].value
  IN [productName |-> productSummary.product,
      facade |-> [type |-> "link",
                  text |-> Facades(productSummary.product)[1].name,
                  url |-> Facades(productSummary.product)[1].repo],
      transferSize |-> last.transferSize,
      blockingTime |-> last.blockingTime,
      subItems |-> sortItems([j \in 1..Len(productSummary.urlSummaries) |->
                                item(productSummary.urlSummaries[j])])]

\* variant: the facade suggested is the last of the list
tableItemLastFacade(productSummary) ==
  LET facades == Facades(productSummary.product)
  IN [productName |-> productSummary.product,
      facade |-> [type |-> "link",
                  text |-> facades[Len(facades)].name,
                  url |-> facades[Len(facades)].repo],
      transferSize |-> sumField(productSummary.urlSummaries, "transferSize"),
      blockingTime |-> sumField(productSummary.urlSummaries, "blockingTime"),
      subItems |-> sortItems([j \in 1..Len(productSummary.urlSummaries) |->
                                item(productSummary.urlSummaries[j])])]

\* variant: the sub-items below the threshold are folded into one last entry
tableItemCondensed(productSummary) ==
  LET all == sortItems([j \in 1..Len(productSummary.urlSummaries) |->
                          item(productSummary.urlSummaries[j])])
      small == SelectSeq(all, isSmall)
      other == [url |-> "Other resources",
                transferSize |-> sumItems(small, "transferSize"),
                blockingTime |-> sumItems(small, "blockingTime"),
                firstStartTime |-> NaN, firstEndTime |-> NaN]
  IN [productName |-> productSummary.product,
      facade |-> [type |-> "link",
                  text |-> Facades(productSummary.product)[1].name,
                  url |-> Facades(productSummary.product)[1].repo],
      transferSize |-> sumField(productSummary.urlSummaries, "transferSize"),
      blockingTime |-> sumField(productSummary.urlSummaries, "blockingTime"),
      subItems |-> SelectSeq(all, isLarge) \o (IF small = <<>> THEN <<>> ELSE <<other>>)]

tableItem(productSummary) ==
  [productName |-> productSummary.product,
   facade |-> [type |-> "link",
               text |-> Facades(productSummary.product)[1].name,
               url |-> Facades(productSummary.product)[1].repo],
   transferSize |-> sumField(productSummary.urlSummaries, "transferSize"),
   blockingTime |-> sumField(productSummary.urlSummaries, "blockingTime"),
   subItems |-> sortItems([j \in 1..Len(productSummary.urlSummaries) |->
                             item(productSummary.urlSummaries[j])])]

RECURSIVE sumResults(_, _)
sumResults(results, field) ==
  IF results = <<>> THEN 0
  ELSE sumResults(SubSeq(results, 1, Len(results) - 1), field) + results[Len(results)][field]

\* variant: the summary holds the totals of the product seen last
auditSummaryLast(productSummaries) ==
  LET results == [j \in 1..Len(productSummaries) |-> tableItem(productSummaries[j])]
      summary == [wastedBytes |-> results[Len(results)].transferSize,
                  wastedMs |-> results[Len(results)].blockingTime]
  IN IF Len(results) = 0
     THEN [score |-> 1, notApplicable |-> TRUE]
     ELSE [score |-> 0,
           displayValue |-> [itemCount |-> Len(results)],
           details |-> [type |-> "table", items |-> results, summary |-> summary]]

\* variant: the display value counts the reported urls instead of the products
auditCountsSubItems(productSummaries) ==
  LET results == [j \in 1..Len(productSummaries) |-> tableItem(productSummaries[j])]
      summary == [wastedBytes |-> sumResults(results, "transferSize"),
                  wastedMs |-> sumResults(results, "blockingTime")]
      RECURSIVE urls(_)
      urls(n) == IF n = 0 THEN 0 ELSE urls(n - 1) + Len(results[n].subItems)
  IN IF Len(results) = 0
     THEN [score |-> 1, notApplicable |-> TRUE]
     ELSE [score |-> 0,
           displayValue |-> [itemCount |-> urls(Len(results))],
           details |-> [type |-> "table", items |-> results, summary |-> summary]]

audit(productSummaries) ==
  LET results == [j \in 1..Len(productSummaries) |-> tableItem(productSummaries[j])]
      summary == [wastedBytes |-> sumResults(results, "transferSize"),
                  wastedMs |-> sumResults(results, "blockingTime")]
  IN IF Len(results) = 0
     THEN [score |-> 1, notApplicable |-> TRUE]
     ELSE [score |-> 0,
           displayValue |-> [itemCount |-> Len(results)],
           details |-> [type |-> "table", items |-> results, summary |-> summary]]

(***************************************************************************)
(* The run of one audit.                                                   *)
(***************************************************************************)
\* the audit has not returned yet
NoProduct == [pending |-> TRUE]

\* the artifacts of the page and its main resource; the audit has no
\* dependency graph and no LCP url
LazyArtifacts ==
  /\ artifacts = [URL |-> [finalUrl |-> finalUrl]]
  /\ mainResource = [url |-> finalUrl]
  /\ graph = <<>>
  /\ lcpUrl = None

Init ==
  /\ \E n \in 1..MaxReq : \E u \in [1..n -> URLs] : \E d \in [1..n -> Deltas] :
       networkRecords = Log(u, d)
  /\ byURL = <<>>
  /\ pc = "summaries"
  /\ i = 1
  /\ entitySummaries = <<>>
  /\ auditProduct = NoProduct
  /\ LazyArtifacts

Summarize ==
  /\ pc = "summaries"
  /\ byURL' = getSummaries(networkRecords)
  /\ pc' = "pass1"
  /\ i' = 1
  /\ UNCHANGED <<networkRecords, entitySummaries, auditProduct>>
  /\ UNCHANGED lazyFrame

Pass1 ==
  /\ pc = "pass1"
  /\ entitySummaries' = pass1Record(entitySummaries, byURL[i].key, byURL[i].value)
  /\ IF i < Len(byURL) THEN i' = i + 1 /\ pc' = pc
                       ELSE i' = 1 /\ pc' = "pass2"
  /\ UNCHANGED <<networkRecords, byURL, auditProduct>>
  /\ UNCHANGED lazyFrame

Pass2 ==
  /\ pc = "pass2"
  /\ entitySummaries' = pass2Record(entitySummaries, byURL[i].key, byURL[i].value)
  /\ IF i < Len(byURL) THEN i' = i + 1 /\ pc' = pc
                       ELSE i' = 1 /\ pc' = "audit"
  /\ UNCHANGED <<networkRecords, byURL, auditProduct>>
  /\ UNCHANGED lazyFrame

\* variant: the aggregation takes the sets out of entitySummaries
AuditDrainsSets ==
  /\ pc = "audit"
  /\ auditProduct' = audit(allProductSummaries(entitySummaries))
  /\ pc' = "done"
  /\ entitySummaries' = <<>>
  /\ UNCHANGED <<networkRecords, byURL, i>>
  /\ UNCHANGED lazyFrame

Audit ==
  /\ pc = "audit"
  /\ auditProduct' = audit(allProductSummaries(entitySummaries))
  /\ pc' = "done"
  /\ UNCHANGED <<networkRecords, byURL, i, entitySummaries>>
  /\ UNCHANGED lazyFrame

Next == Summarize \/ Pass1 \/ Pass2 \/ Audit

Spec == Init /\ [][Next]_vars

(***************************************************************************)
(* getFacadableProductSummaries and the aggregation run on a mapping of    *)
(* cost records handed over directly, whose timing fields may be missing.  *)
(***************************************************************************)
RecordURLs == {"pA1", "pA2", "pB", "rE1"}

StartTimes == {NaN, 1, MaxDelta}

EndTimes == {NaN, MaxDelta}

\* the mapping of the urls u to cost records with the timing s, e
Mapping(u, s, e) ==
  [k \in DOMAIN u |->
     [key |-> u[k],
      value |-> [transferSize |-> SizeOf(u[k]), blockingTime |-> BlockingOf(u[k]),
                 firstStartTime |-> s[k], firstEndTime |-> e[k]]]]

Distinct(u) == \A a, b \in DOMAIN u : a # b => u[a] # u[b]

InitRecords ==
  /\ networkRecords = <<>>
  /\ \E n \in 1..MaxReq :
       \E u \in [1..n -> RecordURLs], s \in [1..n -> StartTimes], e \in [1..n -> EndTimes] :
         Distinct(u) /\ byURL = Mapping(u, s, e)
  /\ pc = "pass1"
  /\ i = 1
  /\ entitySummaries = <<>>
  /\ auditProduct = NoProduct
  /\ LazyArtifacts

NextRecords == Pass1 \/ Pass2 \/ Audit

SpecRecords == InitRecords /\ [][NextRecords]_vars

(***************************************************************************)
(* The audit of a page that loads two facadable products of one entity     *)
(* and two other resources of that entity, each of them once, in any       *)
(* order.                                                                  *)
(***************************************************************************)
SiblingURLs == {"pA1", "pB", "rE1", "qE1"}

InitSiblings ==
  /\ \E u \in [1..Cardinality(SiblingURLs) -> SiblingURLs] :
       \E d \in [1..Cardinality(SiblingURLs) -> Deltas] :
         Distinct(u) /\ networkRecords = Log(u, d)
  /\ byURL = <<>>
  /\ pc = "summaries"
  /\ i = 1
  /\ entitySummaries = <<>>
  /\ auditProduct = NoProduct
  /\ LazyArtifacts

SpecSiblings == InitSiblings /\ [][Next]_vars

(***************************************************************************)
(* has-inspector-issues.js: IssuesPanelEntries.  The artifact               *)
(* InspectorIssues holds five lists of issues; the audit turns them into   *)
(* the items of a table.                                                   *)
(***************************************************************************)
MaxIssues == 2

\* the lists of at most n elements of S
ListsUpTo(S, n) == UNION {[1..k -> S] : k \in 0..n}

\* an issue that came without request
NoRequest == [missing |-> TRUE]

SameSiteCookieIssues ==
  {[cookieUrl |-> "www.samesitecookies.com", request |-> NoRequest],
   [cookieUrl |-> "www.samesitecookies.com", request |-> [url |-> "www.request.com"]]}

MixedContentIssues == {[mainResourceURL |-> "www.mixedcontent.com", request |-> NoRequest]}

BlockedByResponseIssues ==
  {[reason |-> "CorpNotSameOrigin", request |-> [url |-> "www.blockedbyresponse.com"]]}

HeavyAdIssues == {[reason |-> "CpuPeakLimit"]}

ContentSecurityPolicyIssues ==
  {[contentSecurityPolicyViolationType |-> t, blockedURL |-> "www.contentsecuritypolicy.com"] :
     t \in {"kInlineViolation", "kEvalViolation",
            "kTrustedTypesSinkViolation", "kTrustedTypesPolicyViolation"}}

heavyAdsMsgMap(reason) ==
  CASE reason = "NetworkTotalLimit" -> "heavyAdsNetworkLimitMessage"
    [] reason = "CpuTotalLimit" -> "heavyAdsCPUTotalLimitMessage"
    [] reason = "CpuPeakLimit" -> "heavyAdsCPUPeakLimitMessage"
    [] OTHER -> None

contentSecurityPolicyMsgMap(type) ==
  CASE type = "kInlineViolation" -> "cspInlineViolationMessage"
    [] type = "kEvalViolation" -> "cspEvalViolationMessage"
    [] type = "kURLViolation" -> "cspUrlViolationMessage"
    [] OTHER -> None

blockedByResponseMsgMap(reason) ==
  CASE reason = "CoepFrameResourceNeedsCoepHeader" -> "coepResourceBlockedMessage"
    [] reason = "CoopSandboxedIFrameCannotNavigateToCoopPage" -> "coopIframeBlockedMessage"
    [] reason = "CorpNotSameOrigin" -> "coepResourceBlockedMessage"
    [] reason = "CorpNotSameOriginAfterDefaultedToSameOriginByCoep" -> "coepFrameBlockedMessage"
    [] reason = "CorpNotSameSite" -> "coepResourceBlockedMessage"
    [] OTHER -> None

\* issue.request && issue.request.url
requestUrlOf(issue) == IF issue.request = NoRequest THEN None ELSE issue.request.url

getMixedContentItems(mixedContentIssues) ==
  [k \in 1..Len(mixedContentIssues) |->
     [issueType |-> "MixedContent",
      description |-> "mixedContentMessage",
      requestUrl |-> IF requestUrlOf(mixedContentIssues[k]) # None
                     THEN requestUrlOf(mixedContentIssues[k])
                     ELSE mixedContentIssues[k].mainResourceURL]]

getSameSiteCookieItems(sameSiteCookieIssues) ==
  [k \in 1..Len(sameSiteCookieIssues) |->
     [issueType |-> "SameSiteCookie",
      description |-> "sameSiteMessage",
      requestUrl |-> IF requestUrlOf(sameSiteCookieIssues[k]) # None
                     THEN requestUrlOf(sameSiteCookieIssues[k])
                     ELSE sameSiteCookieIssues[k].cookieUrl]]

getBlockedByResponseItems(blockedByResponseIssues) ==
  [k \in 1..Len(blockedByResponseIssues) |->
     [issueType |-> "BlockedByResponse",
      description |-> blockedByResponseMsgMap(blockedByResponseIssues[k].reason),
      requestUrl |-> blockedByResponseIssues[k].request.url]]

\* a heavy-ad item has no requestUrl
getHeavyAdsItems(heavyAdsIssues) ==
  [k \in 1..Len(heavyAdsIssues) |->
     [issueType |-> "HeavyAds",
      description |-> heavyAdsMsgMap(heavyAdsIssues[k].reason),
      requestUrl |-> None]]

isSupportedCsp(issue) ==
  /\ issue.contentSecurityPolicyViolationType # "kTrustedTypesSinkViolation"
  /\ issue.contentSecurityPolicyViolationType # "kTrustedTypesPolicyViolation"

cspItem(issue) ==
  [issueType |-> "ContentSecurityPolicy",
   description |-> contentSecurityPolicyMsgMap(issue.contentSecurityPolicyViolationType),
   requestUrl |-> issue.blockedURL]

\* variant: every issue of the list becomes an item
getContentSecurityPolicyItemsUnfiltered(cspIssues) ==
  [k \in 1..Len(cspIssues) |-> cspItem(cspIssues[k])]

getContentSecurityPolicyItems(cspIssues) ==
  LET supported == SelectSeq(cspIssues, isSupportedCsp)
  IN [k \in 1..Len(supported) |-> cspItem(supported[k])]

issueItems(issues) ==
  getSameSiteCookieItems(issues.sameSiteCookies) \o
  getMixedContentItems(issues.mixedContent) \o
  getBlockedByResponseItems(issues.blockedByResponse) \o
  getHeavyAdsItems(issues.heavyAds) \o
  getContentSecurityPolicyItems(issues.contentSecurityPolicy)

\* variant: the score looks at the issues gathered, not at the items listed
issuesAuditScoresIssues(issues) ==
  [score |-> IF Len(issues.sameSiteCookies) + Len(issues.mixedContent)
                  + Len(issues.blockedByResponse) + Len(issues.heavyAds)
                  + Len(issues.contentSecurityPolicy) > 0 THEN 0 ELSE 1,
   details |-> [type |-> "table", items |-> issueItems(issues)]]

issuesAudit(issues) ==
  [score |-> IF Len(issueItems(issues)) > 0 THEN 0 ELSE 1,
   details |-> [type |-> "table", items |-> issueItems(issues)]]

InitIssues ==
  /\ \E sameSiteCookies \in ListsUpTo(SameSiteCookieIssues, MaxIssues),
        mixedContent \in ListsUpTo(MixedContentIssues, MaxIssues),
        blockedByResponse \in ListsUpTo(BlockedByResponseIssues, MaxIssues),
        heavyAds \in ListsUpTo(HeavyAdIssues, MaxIssues),
        contentSecurityPolicy \in ListsUpTo(ContentSecurityPolicyIssues, MaxIssues) :
       artifacts = [InspectorIssues |->
                      [sameSiteCookies |-> sameSiteCookies,
                       mixedContent |-> mixedContent,
                       blockedByResponse |-> blockedByResponse,
                       heavyAds |-> heavyAds,
                       contentSecurityPolicy |-> contentSecurityPolicy]]
  /\ pc = "audit"
  /\ auditProduct = NoProduct
  /\ networkRecords = <<>>
  /\ byURL = <<>>
  /\ i = 1
  /\ entitySummaries = <<>>
  /\ mainResource = None
  /\ graph = <<>>
  /\ lcpUrl = None

AuditIssues ==
  /\ pc = "audit"
  /\ auditProduct' = issuesAudit(artifacts.InspectorIssues)
  /\ pc' = "done"
  /\ UNCHANGED <<networkRecords, byURL, i, entitySummaries, artifacts,
                 mainResource, graph, lcpUrl>>

NextIssues == AuditIssues

SpecIssues == InitIssues /\ [][NextIssues]_vars

(***************************************************************************)
(* preload-lcp.js: PreloadLCPAudit.  The audit looks up the LCP element    *)
(* among the trace elements, walks the dependency graph for the request    *)
(* of its image, and reports the time a preload of it would save.          *)
(***************************************************************************)
MaxNodes == 2

\* URL.NON_NETWORK_PROTOCOLS
NON_NETWORK_PROTOCOLS == {"blob", "data", "intent"}

\* a network node of the graph; traversalPath lists the types of the node
\* itself and of the nodes on the way back to the root
networkNode(url, isLinkPreload, protocol, frameId, traversalPath, isMainDocument) ==
  [type |-> "network",
   record |-> [url |-> url, isLinkPreload |-> isLinkPreload,
               protocol |-> protocol, frameId |-> frameId],
   traversalPath |-> traversalPath,
   isMainDocument |-> isMainDocument,
   duration |-> 180]

cpuNode ==
  [type |-> "cpu",
   record |-> [url |-> None, isLinkPreload |-> FALSE, protocol |-> None, frameId |-> None],
   traversalPath |-> <<"cpu", "network">>,
   isMainDocument |-> FALSE,
   duration |-> 50]

Nodes ==
  {networkNode("doc", FALSE, "h2", "F1", <<"network">>, TRUE),
   networkNode("script", FALSE, "h2", "F1", <<"network", "network">>, FALSE),
   networkNode("img", FALSE, "h2", "F1", <<"network", "cpu", "network", "network">>, FALSE),
   networkNode("img", FALSE, "h2", "F1", <<"network", "network">>, FALSE),
   networkNode("img", TRUE, "h2", "F1", <<"network", "network", "network">>, FALSE),
   networkNode("img", FALSE, "data", "F1", <<"network", "network", "network">>, FALSE),
   networkNode("img", FALSE, "h2", "F2", <<"network", "network", "network">>, FALSE),
   networkNode("", FALSE, "h2", "F1", <<"network", "network", "network">>, FALSE),
   cpuNode}

\* the main resource, with as many redirects as the sequence has entries
MainResources(frames) ==
  {[frameId |-> f, redirects |-> r] :
     f \in frames, r \in {<<>>, <<"r1">>, <<"r1", "r2">>}}
  \cup {[frameId |-> f] : f \in frames}

traceElement(traceEventType, imageSource) ==
  [traceEventType |-> traceEventType, imageSource |-> imageSource]

TraceElementLists ==
  {<<>>,
   <<traceElement("largest-contentful-paint", "img")>>,
   <<traceElement("largest-contentful-paint", None)>>,
   <<traceElement("largest-contentful-paint", "")>>,
   <<traceElement("layout-shift", None), traceElement("largest-contentful-paint", "img")>>}

\* artifacts.TraceElements.find(...): the first LCP element, if any
RECURSIVE find(_)
find(elements) ==
  IF elements = <<>> THEN <<>>
  ELSE IF Head(elements).traceEventType = "largest-contentful-paint"
       THEN <<Head(elements)>>
       ELSE find(Tail(elements))

\* !x for a url or null
falsy(x) == x = None \/ x = ""

isNetwork(type) == type = "network"

\* traversalPath.slice(1).filter(initiator => initiator.type === 'network')
initiatorPath(node) == SelectSeq(Tail(node.traversalPath), isNetwork)

\* variant: a request as deep as the main resource is recommended too
shouldPreloadRequestAtDepth(request, mainRes, path, lcpImageSource) ==
  LET mainResourceDepth == IF "redirects" \in DOMAIN mainRes
                           THEN Len(mainRes.redirects) ELSE 0
  IN IF request.url # lcpImageSource THEN FALSE
     ELSE IF request.isLinkPreload THEN FALSE
     ELSE IF request.protocol \in NON_NETWORK_PROTOCOLS THEN FALSE
     ELSE IF Len(path) < mainResourceDepth THEN FALSE
     ELSE request.frameId = mainRes.frameId

shouldPreloadRequest(request, mainRes, path, lcpImageSource) ==
  LET mainResourceDepth == IF "redirects" \in DOMAIN mainRes
                           THEN Len(mainRes.redirects) ELSE 0
  IN IF request.url # lcpImageSource THEN FALSE
     ELSE IF request.isLinkPreload THEN FALSE
     ELSE IF request.protocol \in NON_NETWORK_PROTOCOLS THEN FALSE
     ELSE IF Len(path) <= mainResourceDepth THEN FALSE
     ELSE request.frameId = mainRes.frameId

\* the last node of the graph that satisfies test, as a sequence of 0 or 1
RECURSIVE lastNode(_, _, _)
lastNode(g, url, wantMain) ==
  IF g = <<>> THEN <<>>
  ELSE LET node == g[Len(g)]
           hit == IF wantMain THEN node.isMainDocument
                  ELSE ~node.isMainDocument /\ node.record.url = url
       IN IF node.type = "network" /\ hit THEN <<node>>
          ELSE lastNode(SubSeq(g, 1, Len(g) - 1), url, wantMain)

computeWasteWithGraph(url, g) ==
  IF lastNode(g, url, TRUE) = <<>> THEN [error |-> "Could not find main document node"]
  ELSE IF lastNode(g, url, FALSE) = <<>> THEN [error |-> "Could not find the LCP node"]
  ELSE [wastedMs |-> lastNode(g, url, FALSE)[1].duration,
        results |-> <<[wastedMs |-> lastNode(g, url, FALSE)[1].duration, url |-> url]>>]

preloadProduct(waste) ==
  IF "error" \in DOMAIN waste THEN waste
  ELSE [score |-> [scoreForWastedMs |-> waste.wastedMs],
        numericValue |-> waste.wastedMs,
        numericUnit |-> "millisecond",
        displayValue |-> IF waste.wastedMs # 0 THEN [wastedMs |-> waste.wastedMs] ELSE "",
        details |-> [type |-> "opportunity", items |-> waste.results,
                     overallSavingsMs |-> waste.wastedMs]]

\* variant: the waste is computed whatever getURLToPreload returned
preloadAuditUnguarded(url, g) == preloadProduct(computeWasteWithGraph(url, g))

preloadAudit(url, g) ==
  IF falsy(url) THEN [score |-> 1, notApplicable |-> TRUE]
  ELSE preloadProduct(computeWasteWithGraph(url, g))

PreloadIdle ==
  /\ pc = "getURLToPreload"
  /\ auditProduct = NoProduct
  /\ lcpUrl = None
  /\ networkRecords = <<>>
  /\ byURL = <<>>
  /\ i = 1
  /\ entitySummaries = <<>>

InitPreload ==
  /\ \E n \in 0..MaxNodes : graph \in [1..n -> Nodes]
  /\ mainResource \in MainResources({"F1"})
  /\ \E elements \in TraceElementLists : artifacts = [TraceElements |-> elements]
  /\ PreloadIdle

lcpElement == find(artifacts.TraceElements)

GetURLToPreload ==
  /\ pc = "getURLToPreload"
  /\ lcpUrl' = None
  /\ i' = 1
  /\ pc' = IF lcpElement = <<>> \/ graph = <<>> THEN "result" ELSE "traverse"
  /\ UNCHANGED <<networkRecords, byURL, entitySummaries, auditProduct,
                 artifacts, mainResource, graph>>

Traverse ==
  /\ pc = "traverse"
  /\ lcpUrl' = IF /\ graph[i].type = "network"
                  /\ shouldPreloadRequest(graph[i].record, mainResource,
                                          initiatorPath(graph[i]), lcpElement[1].imageSource)
               THEN graph[i].record.url
               ELSE lcpUrl
  /\ IF i < Len(graph) THEN i' = i + 1 /\ pc' = pc
                       ELSE i' = 1 /\ pc' = "result"
  /\ UNCHANGED <<networkRecords, byURL, entitySummaries, auditProduct,
                 artifacts, mainResource, graph>>

AuditPreload ==
  /\ pc = "result"
  /\ auditProduct' = preloadAudit(lcpUrl, graph)
  /\ pc' = "done"
  /\ UNCHANGED <<networkRecords, byURL, i, entitySummaries,
                 artifacts, mainResource, graph, lcpUrl>>

NextPreload == GetURLToPreload \/ Traverse \/ AuditPreload

SpecPreload == InitPreload /\ [][NextPreload]_vars

(***************************************************************************)
(* shouldPreloadRequest on one request: the graph is the single node of    *)
(* the request, drawn with every combination of what the function reads.   *)
(***************************************************************************)
Requests ==
  {networkNode(url, isLinkPreload, protocol, frameId, traversalPath, FALSE) :
     url \in {"img", "script"},
     isLinkPreload \in BOOLEAN,
     protocol \in {"h2", "data", "blob"},
     frameId \in {"F1", "F2"},
     traversalPath \in {<<"network">>, <<"network", "network">>,
                        <<"network", "cpu", "network">>,
                        <<"network", "network", "cpu", "network">>}}

InitRequest ==
  /\ \E request \in Requests : graph = <<request>>
  /\ mainResource \in MainResources({"F1", "F2"})
  /\ \E imageSource \in {"img", None} :
       artifacts = [TraceElements |->
                      <<traceElement("largest-contentful-paint", imageSource)>>]
  /\ PreloadIdle

SpecRequest == InitRequest /\ [][NextPreload]_vars

(***************************************************************************)
(* Vocabulary of the properties.                                           *)
(***************************************************************************)
\* the record of the url takes part in both loops
ThirdParty(url) == getEntity(url) # None /\ ~isFirstParty(url, mainEntity)

\* the attribution sets of an entity, and all of them
SetsOfEntity(entity) ==
  IF MapHas(entitySummaries, entity)
  THEN {MapGet(entitySummaries, entity)[k].value :
          k \in 1..Len(MapGet(entitySummaries, entity))}
  ELSE {}

AllSets == UNION {SetsOfEntity(entitySummaries[k].key) : k \in 1..Len(entitySummaries)}

\* the requests of a url in the log, and the first of them
RequestsOf(url) == {k \in 1..Len(networkRecords) : networkRecords[k].url = url}

FirstRequest(url) ==
  networkRecords[CHOOSE k \in RequestsOf(url) : \A l \in RequestsOf(url) : k <= l]

SetMin(S) == CHOOSE m \in S : \A x \in S : m <= x

\* the positions in byURL of the own records of a product
OwnRecords(product) ==
  {j \in 1..Len(byURL) : ThirdParty(byURL[j].key) /\ getProduct(byURL[j].key) = product}

Pass1Done == pc \in {"pass2", "audit", "done"}

Pass2Done == pc \in {"audit", "done"}

(***************************************************************************)
(* C1: once the second loop is over, a third-party record that has no      *)
(* facadable product of its own is a member of a set of its entity if and  *)
(* only if its firstStartTime is at or after the cutoffTime of that set.   *)
(***************************************************************************)
C1_MemberIffAtOrAfterCutoff ==
  Pass2Done =>
    \A j \in 1..Len(byURL) :
      (ThirdParty(byURL[j].key) /\ ~hasFacade(byURL[j].key)) =>
        \A ps \in SetsOfEntity(getEntity(byURL[j].key)) :
          MapHas(ps.urlSummaries, byURL[j].key)
            <=> byURL[j].value.firstStartTime >= ps.cutoffTime

\* a resource that starts exactly at the cutoff is in the set while another
\* resource of the entity, which started before the cutoff, is not
C1_Witness ==
  /\ pc = "done"
  /\ \E ps \in AllSets : \E j, k \in 1..Len(byURL) :
       /\ ~hasFacade(byURL[j].key) /\ ~hasFacade(byURL[k].key)
       /\ byURL[j].value.firstStartTime = ps.cutoffTime
       /\ MapHas(ps.urlSummaries, byURL[j].key)
       /\ getEntity(byURL[k].key) = getEntity(byURL[j].key)
       /\ byURL[k].value.firstStartTime < ps.cutoffTime
       /\ ~MapHas(ps.urlSummaries, byURL[k].key)

(***************************************************************************)
(* C2: once the first loop is over, the cutoffTime of every set is the     *)
(* least time at which the headers of the first request of one of the      *)
(* product's own urls were received (firstEndTime of the own records);     *)
(* start and end times play no part.                                       *)
(***************************************************************************)
C2_CutoffIsMinOfOwnHeaderTimes ==
  Pass1Done =>
    \A ps \in AllSets :
      /\ OwnRecords(ps.product) # {}
      /\ ps.cutoffTime =
           SetMin({byURL[j].value.firstEndTime : j \in OwnRecords(ps.product)})
      /\ ps.cutoffTime =
           SetMin({FirstRequest(byURL[j].key).headerEndTime : j \in OwnRecords(ps.product)})

\* the cutoff comes from the second own record of the product, whose headers
\* arrived before those of the first, though after the first record started
C2_Witness ==
  /\ pc = "pass2"
  /\ \E ps \in AllSets : \E j, k \in OwnRecords(ps.product) :
       /\ j < k
       /\ byURL[k].value.firstEndTime < byURL[j].value.firstEndTime
       /\ ps.cutoffTime = byURL[k].value.firstEndTime
       /\ ps.cutoffTime > byURL[j].value.firstStartTime

(***************************************************************************)
(* C3: a record without a facadable product whose firstStartTime is        *)
(* missing is never a member of an attribution set.                        *)
(***************************************************************************)
C3_MissingStartNeverAttributed ==
  \A ps \in AllSets : \A k \in 1..Len(ps.urlSummaries) :
    (ps.cutoffTime # NaN /\ ~hasFacade(ps.urlSummaries[k].key))
      => ps.urlSummaries[k].value.firstStartTime # NaN

(***************************************************************************)
(* C4, as stated: the opportunities are listed in the order in which the   *)
(* first own record of their products appears in the mapping.              *)
(***************************************************************************)
ProductFirstIndex(product) == SetMin(OwnRecords(product))

EntityFirstIndex(entity) ==
  SetMin({j \in 1..Len(byURL) : ThirdParty(byURL[j].key) /\ getEntity(byURL[j].key) = entity})

ProductEntity(product) == getEntity(byURL[ProductFirstIndex(product)].key)

Failed == pc = "done" /\ auditProduct.score = 0

C4_OpportunitiesInSetCreationOrder ==
  Failed =>
    \A a, b \in 1..Len(auditProduct.details.items) :
      a < b => ProductFirstIndex(auditProduct.details.items[a].productName)
                 < ProductFirstIndex(auditProduct.details.items[b].productName)

(***************************************************************************)
(* C4, amended: the opportunities are grouped by entity; the entities come *)
(* in the order in which their first third-party record, facadable or not, *)
(* appears in the mapping, and the products of one entity in the order in  *)
(* which their first own record appears.                                   *)
(***************************************************************************)
C4_OpportunitiesGroupedByEntity ==
  Failed =>
    \A a, b \in 1..Len(auditProduct.details.items) :
      a < b =>
        LET pa == auditProduct.details.items[a].productName
            pb == auditProduct.details.items[b].productName
        IN \/ EntityFirstIndex(ProductEntity(pa)) < EntityFirstIndex(ProductEntity(pb))
           \/ /\ ProductEntity(pa) = ProductEntity(pb)
              /\ ProductFirstIndex(pa) < ProductFirstIndex(pb)

\* two products of one entity are listed next to each other although the set
\* of another entity's product was created between theirs
C4_Witness ==
  /\ Failed
  /\ Len(auditProduct.details.items) = 3
  /\ ProductEntity(auditProduct.details.items[1].productName)
       = ProductEntity(auditProduct.details.items[2].productName)
  /\ ProductFirstIndex(auditProduct.details.items[3].productName)
       < ProductFirstIndex(auditProduct.details.items[2].productName)

(***************************************************************************)
(* C5, as stated: no sub-item listed under its own url is smaller than     *)
(* 1024 bytes.                                                             *)
(***************************************************************************)
Opportunities == auditProduct.details.items

\* the attribution set an opportunity was made from
SetOfProduct(product) == CHOOSE ps \in AllSets : ps.product = product

C5_NoListedEntryBelowThreshold ==
  Failed =>
    \A a \in 1..Len(Opportunities) : \A k \in 1..Len(Opportunities[a].subItems) :
      Opportunities[a].subItems[k].url # "Other resources"
        => Opportunities[a].subItems[k].transferSize >= condenseThreshold

(***************************************************************************)
(* C5, amended: every member of the set is listed as a sub-item of its     *)
(* own, with its own transferSize and blockingTime, also when it is        *)
(* smaller than 1024 bytes; nothing is folded, there is no "Other          *)
(* resources" entry, and the entries below 1024 bytes come after all the   *)
(* larger ones.                                                            *)
(***************************************************************************)
C5_EveryMemberListedIndividually ==
  Failed =>
    \A a \in 1..Len(Opportunities) :
      LET sub == Opportunities[a].subItems
          members == SetOfProduct(Opportunities[a].productName).urlSummaries
      IN /\ Len(sub) = Len(members)
         /\ \A k \in 1..Len(members) : \E l \in 1..Len(sub) :
              /\ sub[l].url = members[k].key
              /\ sub[l].transferSize = members[k].value.transferSize
              /\ sub[l].blockingTime = members[k].value.blockingTime
         /\ \A l \in 1..Len(sub) : sub[l].url # "Other resources"
         /\ \A k, l \in 1..Len(sub) :
              (isSmall(sub[k]) /\ isLarge(sub[l])) => l < k

\* an opportunity lists two entries below 1024 bytes after a larger one
C5_Witness ==
  /\ Failed
  /\ \E a \in 1..Len(Opportunities) : \E k, l, n \in 1..Len(Opportunities[a].subItems) :
       /\ k < l /\ l < n
       /\ isLarge(Opportunities[a].subItems[k])
       /\ isSmall(Opportunities[a].subItems[l])
       /\ isSmall(Opportunities[a].subItems[n])

(***************************************************************************)
(* C6, as stated: the transfer size of a member of a set is the size of    *)
(* the first fetch of its url.                                             *)
(***************************************************************************)
C6_MemberSizeIsFirstFetchSize ==
  Pass1Done =>
    \A ps \in AllSets : \A k \in 1..Len(ps.urlSummaries) :
      ps.urlSummaries[k].value.transferSize
        = FirstRequest(ps.urlSummaries[k].key).transferSize

(***************************************************************************)
(* C6, amended: a url fetched several times is one member of a set, and    *)
(* the transfer size of that member is the sum of the sizes of all the     *)
(* fetches of the url; the total of the set counts that sum once.          *)
(***************************************************************************)
RECURSIVE BytesUpTo(_, _)
BytesUpTo(url, n) ==
  IF n = 0 THEN 0
  ELSE BytesUpTo(url, n - 1)
       + IF networkRecords[n].url = url THEN networkRecords[n].transferSize ELSE 0

RequestBytes(url) == BytesUpTo(url, Len(networkRecords))

RECURSIVE BytesOfUrls(_)
BytesOfUrls(S) ==
  IF S = {} THEN 0
  ELSE LET u == CHOOSE x \in S : TRUE IN RequestBytes(u) + BytesOfUrls(S \ {u})

C6_MemberSizeIsSumOfFetches ==
  /\ Pass1Done =>
       \A ps \in AllSets :
         /\ \A k, l \in 1..Len(ps.urlSummaries) :
              ps.urlSummaries[k].key = ps.urlSummaries[l].key => k = l
         /\ \A k \in 1..Len(ps.urlSummaries) :
              ps.urlSummaries[k].value.transferSize = RequestBytes(ps.urlSummaries[k].key)
  /\ Failed =>
       \A a \in 1..Len(Opportunities) :
         Opportunities[a].transferSize
           = BytesOfUrls(MapKeys(SetOfProduct(Opportunities[a].productName).urlSummaries))

\* an attributed resource that was fetched twice is one member of the set
C6_Witness ==
  /\ Failed
  /\ \E ps \in AllSets : \E k \in 1..Len(ps.urlSummaries) :
       /\ ~hasFacade(ps.urlSummaries[k].key)
       /\ Cardinality(RequestsOf(ps.urlSummaries[k].key)) > 1
       /\ ps.urlSummaries[k].value.transferSize
            > FirstRequest(ps.urlSummaries[k].key).transferSize

(***************************************************************************)
(* C7: a url of a facadable product that was requested several times is    *)
(* reported as one sub-item of the product's opportunity whose             *)
(* transferSize is the total over its requests, and the total of the       *)
(* opportunity is the sum of its sub-items.                                *)
(***************************************************************************)
OpportunityOf(product) ==
  Opportunities[CHOOSE a \in 1..Len(Opportunities) : Opportunities[a].productName = product]

SubItemsOf(product, url) ==
  {k \in 1..Len(OpportunityOf(product).subItems) : OpportunityOf(product).subItems[k].url = url}

ProductURLs == {u \in URLs : RequestsOf(u) # {} /\ ThirdParty(u) /\ hasFacade(u)}

C7_ProductUrlReportedOnceWithTotalSize ==
  Failed =>
    \A u \in ProductURLs :
      /\ Cardinality(SubItemsOf(getProduct(u), u)) = 1
      /\ \A k \in SubItemsOf(getProduct(u), u) :
           OpportunityOf(getProduct(u)).subItems[k].transferSize = RequestBytes(u)
      /\ OpportunityOf(getProduct(u)).transferSize
           = sumItems(OpportunityOf(getProduct(u)).subItems, "transferSize")

\* the url of a product was requested twice and its opportunity has another sub-item
C7_Witness ==
  /\ Failed
  /\ \E u \in ProductURLs :
       /\ Cardinality(RequestsOf(u)) = 2
       /\ Len(OpportunityOf(getProduct(u)).subItems) = 2
       /\ OpportunityOf(getProduct(u)).transferSize > RequestBytes(u)

(***************************************************************************)
(* C8: when a url of a facadable product is requested several times, its   *)
(* sub-item carries the start and the header time of the first request,    *)
(* the cutoff is no later than that header time, and every resource of the *)
(* entity without a facadable product that starts at or after that header  *)
(* time is reported under the product, also when it starts before the      *)
(* later request.                                                          *)
(***************************************************************************)
ResourceURLs == {r \in URLs : RequestsOf(r) # {} /\ ThirdParty(r) /\ ~hasFacade(r)}

C8_FirstProductRequestDecides ==
  Failed =>
    \A u \in ProductURLs :
      Cardinality(RequestsOf(u)) > 1 =>
        /\ \A k \in SubItemsOf(getProduct(u), u) :
             /\ OpportunityOf(getProduct(u)).subItems[k].firstStartTime
                  = FirstRequest(u).startTime
             /\ OpportunityOf(getProduct(u)).subItems[k].firstEndTime
                  = FirstRequest(u).headerEndTime
        /\ SetOfProduct(getProduct(u)).cutoffTime <= FirstRequest(u).headerEndTime
        /\ \A r \in ResourceURLs :
             (getEntity(r) = getEntity(u)
                /\ FirstRequest(r).startTime >= FirstRequest(u).headerEndTime)
               => SubItemsOf(getProduct(u), r) # {}

\* a resource starts between the two requests of the product url and is reported
C8_Witness ==
  /\ Failed
  /\ \E u \in ProductURLs : \E r \in ResourceURLs : \E k \in RequestsOf(u) :
       /\ getEntity(r) = getEntity(u)
       /\ FirstRequest(u).headerEndTime <= FirstRequest(r).startTime
       /\ FirstRequest(r).startTime < networkRecords[k].startTime
       /\ SubItemsOf(getProduct(u), r) # {}

(***************************************************************************)
(* C9: a url without a facadable product that is fetched several times is  *)
(* judged by its first fetch: when that one starts before the cutoff of a  *)
(* set of its entity, the url is not a member of the set, whenever its     *)
(* later fetches start.                                                    *)
(***************************************************************************)
C9_FirstResourceFetchDecides ==
  Pass2Done =>
    \A r \in ResourceURLs :
      Cardinality(RequestsOf(r)) > 1 =>
        \A ps \in SetsOfEntity(getEntity(r)) :
          FirstRequest(r).startTime < ps.cutoffTime => ~MapHas(ps.urlSummaries, r)

\* the second fetch of the resource starts at or after the cutoff, the first before
C9_Witness ==
  /\ pc = "done"
  /\ \E r \in ResourceURLs : \E ps \in SetsOfEntity(getEntity(r)) : \E k \in RequestsOf(r) :
       /\ FirstRequest(r).startTime < ps.cutoffTime
       /\ networkRecords[k].startTime >= ps.cutoffTime
       /\ ~MapHas(ps.urlSummaries, r)

(***************************************************************************)
(* C10: when every request is to a url without entity, to a first-party    *)
(* url or to a url whose product has no facade, the audit returns exactly  *)
(* score 1 and notApplicable, whatever the sizes.                          *)
(***************************************************************************)
NothingFacadable ==
  \A k \in 1..Len(networkRecords) :
    \/ getEntity(networkRecords[k].url) = None
    \/ isFirstParty(networkRecords[k].url, mainEntity)
    \/ ~hasFacade(networkRecords[k].url)

C10_NotApplicableWithoutFacadableThirdParty ==
  (pc = "done" /\ NothingFacadable) => auditProduct = [score |-> 1, notApplicable |-> TRUE]

\* the page itself is a facadable product and a third party without facade was fetched
C10_Witness ==
  /\ pc = "done"
  /\ NothingFacadable
  /\ auditProduct = [score |-> 1, notApplicable |-> TRUE]
  /\ \E k, l \in 1..Len(networkRecords) :
       /\ hasFacade(networkRecords[k].url)
       /\ isFirstParty(networkRecords[k].url, mainEntity)
       /\ ThirdParty(networkRecords[l].url)
       /\ getProduct(networkRecords[l].url) # None

(***************************************************************************)
(* C11: the audit returns score 0 exactly when an attribution set exists;  *)
(* it then reports one table item per set, a display value that counts    *)
(* these items, and the summary; otherwise it returns score 1 and          *)
(* notApplicable without details.                                          *)
(***************************************************************************)
C11_FailsIffSetExists ==
  pc = "done" =>
    /\ auditProduct.score = 0 <=> AllSets # {}
    /\ AllSets = {} => auditProduct = [score |-> 1, notApplicable |-> TRUE]
    /\ AllSets # {} =>
         /\ DOMAIN auditProduct = {"score", "displayValue", "details"}
         /\ Len(auditProduct.details.items) = Cardinality(AllSets)
         /\ \A ps \in AllSets : \E a \in 1..Len(auditProduct.details.items) :
              auditProduct.details.items[a].productName = ps.product
         /\ auditProduct.displayValue.itemCount = Len(auditProduct.details.items)
         /\ DOMAIN auditProduct.details.summary = {"wastedBytes", "wastedMs"}

\* two sets, one of them with more than one url
C11_Witness ==
  /\ Failed
  /\ Cardinality(AllSets) = 2
  /\ auditProduct.displayValue.itemCount = 2
  /\ \E ps \in AllSets : Len(ps.urlSummaries) = 2

(***************************************************************************)
(* C12: a resource without a facadable product that starts at or after     *)
(* the cutoff of several sets of its entity is a member of each of them,   *)
(* and its transferSize and blockingTime are part of the total of each of  *)
(* these opportunities, hence several times of the summary.                *)
(***************************************************************************)
RECURSIVE SumExcept(_, _, _)
SumExcept(items, url, field) ==
  IF items = <<>> THEN 0
  ELSE SumExcept(SubSeq(items, 1, Len(items) - 1), url, field)
       + IF items[Len(items)].url = url THEN 0 ELSE items[Len(items)][field]

RECURSIVE SumAllExcept(_, _, _)
SumAllExcept(opps, url, field) ==
  IF opps = <<>> THEN 0
  ELSE SumAllExcept(SubSeq(opps, 1, Len(opps) - 1), url, field)
       + SumExcept(opps[Len(opps)].subItems, url, field)

QualifyingSets(r) ==
  {ps \in SetsOfEntity(getEntity(r)) : MapGet(byURL, r).firstStartTime >= ps.cutoffTime}

C12_ResourceCountedForEveryQualifyingSet ==
  Failed =>
    \A r \in ResourceURLs :
      /\ \A ps \in QualifyingSets(r) :
           /\ MapHas(ps.urlSummaries, r)
           /\ OpportunityOf(ps.product).transferSize
                = MapGet(byURL, r).transferSize
                    + SumExcept(OpportunityOf(ps.product).subItems, r, "transferSize")
           /\ OpportunityOf(ps.product).blockingTime
                = MapGet(byURL, r).blockingTime
                    + SumExcept(OpportunityOf(ps.product).subItems, r, "blockingTime")
      /\ auditProduct.details.summary.wastedBytes
           = Cardinality(QualifyingSets(r)) * MapGet(byURL, r).transferSize
               + SumAllExcept(Opportunities, r, "transferSize")
      /\ auditProduct.details.summary.wastedMs
           = Cardinality(QualifyingSets(r)) * MapGet(byURL, r).blockingTime
               + SumAllExcept(Opportunities, r, "blockingTime")

\* a resource is counted for two products of its entity
C12_Witness ==
  /\ Failed
  /\ \E r \in ResourceURLs :
       /\ Cardinality(QualifyingSets(r)) = 2
       /\ MapGet(byURL, r).blockingTime > 0
       /\ auditProduct.details.summary.wastedBytes >= 2 * MapGet(byURL, r).transferSize

(***************************************************************************)
(* C13, as stated: with two facadable products of one entity that each     *)
(* have a resource attributed, there are two opportunities, the total of   *)
(* each is its own record plus one resource, and no resource is counted    *)
(* for both.                                                               *)
(***************************************************************************)
ResourceItems(opp) ==
  {opp.subItems[k].url : k \in 1..Len(opp.subItems)} \cap ResourceURLs

EachHasResource == \A a \in 1..Len(Opportunities) : ResourceItems(Opportunities[a]) # {}

C13_SiblingTotalsIndependent ==
  (Failed /\ EachHasResource) =>
    /\ Len(Opportunities) = 2
    /\ \A a \in 1..Len(Opportunities) : Cardinality(ResourceItems(Opportunities[a])) = 1
    /\ ResourceItems(Opportunities[1]) \cap ResourceItems(Opportunities[2]) = {}

(***************************************************************************)
(* C13, amended: there are two opportunities; the total of each is its     *)
(* own record plus every resource of the entity that starts at or after    *)
(* the cutoff of its product, so the totals are not independent: when      *)
(* both products have a resource attributed, some resource is counted for  *)
(* both.                                                                   *)
(***************************************************************************)
RECURSIVE SizeOfUrls(_)
SizeOfUrls(S) ==
  IF S = {} THEN 0
  ELSE LET u == CHOOSE x \in S : TRUE
       IN MapGet(byURL, u).transferSize + SizeOfUrls(S \ {u})

OwnURLs(product) == {byURL[j].key : j \in OwnRecords(product)}

ResourcesAfterCutoff(product) ==
  {r \in ResourceURLs :
     /\ getEntity(r) = ProductEntity(product)
     /\ MapGet(byURL, r).firstStartTime >= SetOfProduct(product).cutoffTime}

C13_SiblingTotalsShareResources ==
  Failed =>
    /\ Len(Opportunities) = 2
    /\ \A a \in 1..Len(Opportunities) :
         /\ ResourceItems(Opportunities[a]) = ResourcesAfterCutoff(Opportunities[a].productName)
         /\ Opportunities[a].transferSize
              = SizeOfUrls(OwnURLs(Opportunities[a].productName))
                  + SizeOfUrls(ResourcesAfterCutoff(Opportunities[a].productName))
    /\ EachHasResource =>
         ResourceItems(Opportunities[1]) \cap ResourceItems(Opportunities[2]) # {}

\* one product has both resources attributed, the other only the later one
C13_Witness ==
  /\ Failed
  /\ EachHasResource
  /\ \E a, b \in 1..Len(Opportunities) :
       /\ Cardinality(ResourceItems(Opportunities[a])) = 2
       /\ Cardinality(ResourceItems(Opportunities[b])) = 1

(***************************************************************************)
(* C14: the transferSize and the blockingTime of every opportunity are     *)
(* the sums of the transferSize and of the blockingTime of the records     *)
(* that are members of its set, and so the sums over its sub-items, of     *)
(* which there is one for every member.                                    *)
(***************************************************************************)
MemberURLs(ps) == {ps.urlSummaries[k].key : k \in 1..Len(ps.urlSummaries)}

RECURSIVE TimeOfUrls(_)
TimeOfUrls(S) ==
  IF S = {} THEN 0
  ELSE LET u == CHOOSE x \in S : TRUE
       IN MapGet(byURL, u).blockingTime + TimeOfUrls(S \ {u})

RECURSIVE SumOver(_, _, _)
SumOver(seq, K, field) ==
  IF K = {} THEN 0
  ELSE LET k == CHOOSE x \in K : TRUE
       IN seq[k][field] + SumOver(seq, K \ {k}, field)

C14_TotalsAreSumsOverMembers ==
  Failed =>
    \A a \in 1..Len(Opportunities) :
      LET opp == Opportunities[a]
          ps == SetOfProduct(opp.productName)
      IN /\ opp.transferSize = SizeOfUrls(MemberURLs(ps))
         /\ opp.blockingTime = TimeOfUrls(MemberURLs(ps))
         /\ Len(opp.subItems) = Cardinality(MemberURLs(ps))
         /\ opp.transferSize = SumOver(opp.subItems, DOMAIN opp.subItems, "transferSize")
         /\ opp.blockingTime = SumOver(opp.subItems, DOMAIN opp.subItems, "blockingTime")

\* a product record of 4000 bytes and a resource of 8000 bytes: 12000 bytes
C14_Witness ==
  /\ Failed
  /\ \E a \in 1..Len(Opportunities) :
       /\ Len(Opportunities[a].subItems) = 2
       /\ Opportunities[a].transferSize = 12000
       /\ Opportunities[a].blockingTime = 40
       /\ \E k, l \in 1..2 :
            /\ Opportunities[a].subItems[k].transferSize = 4000
            /\ Opportunities[a].subItems[l].transferSize = 8000

(***************************************************************************)
(* C15: wastedBytes of the summary is the sum of the transferSize of the   *)
(* opportunities and wastedMs the sum of their blockingTime.               *)
(***************************************************************************)
C15_SummaryIsSumOfOpportunities ==
  Failed =>
    /\ auditProduct.details.summary.wastedBytes
         = SumOver(Opportunities, DOMAIN Opportunities, "transferSize")
    /\ auditProduct.details.summary.wastedMs
         = SumOver(Opportunities, DOMAIN Opportunities, "blockingTime")

C15_Witness ==
  /\ Failed
  /\ Len(Opportunities) = 2
  /\ \A a \in 1..2 : Opportunities[a].blockingTime > 0
  /\ auditProduct.details.summary.wastedBytes > Opportunities[2].transferSize
  /\ auditProduct.details.summary.wastedMs > Opportunities[2].blockingTime

(***************************************************************************)
(* C16: the sub-items of an opportunity come by non-increasing             *)
(* transferSize, and those of equal transferSize in the order in which     *)
(* they entered the set: the own records of the product in the order of    *)
(* the input, then the attributed resources in the order of the input.     *)
(***************************************************************************)
IndexOfURL(url) == CHOOSE j \in 1..Len(byURL) : byURL[j].key = url

\* u entered the set before v
EnteredBefore(u, v) ==
  \/ hasFacade(u) /\ ~hasFacade(v)
  \/ hasFacade(u) = hasFacade(v) /\ IndexOfURL(u) < IndexOfURL(v)

C16_SubItemsBySizeThenInsertion ==
  Failed =>
    \A a \in 1..Len(Opportunities) :
      LET sub == Opportunities[a].subItems
          ps == SetOfProduct(Opportunities[a].productName)
      IN /\ \A k, l \in 1..Len(ps.urlSummaries) :
              k < l => EnteredBefore(ps.urlSummaries[k].key, ps.urlSummaries[l].key)
         /\ \A k, l \in 1..Len(sub) :
              k < l =>
                /\ sub[k].transferSize >= sub[l].transferSize
                /\ sub[k].transferSize = sub[l].transferSize
                     => EnteredBefore(sub[k].url, sub[l].url)

\* two sub-items of one size, and a third one that the sort moved ahead of them
C16_Witness ==
  /\ Failed
  /\ \E a \in 1..Len(Opportunities) :
       LET sub == Opportunities[a].subItems
       IN /\ Len(sub) >= 2
          /\ \E k \in 1..(Len(sub) - 1) :
               /\ sub[k].transferSize = sub[k + 1].transferSize
               /\ hasFacade(sub[k].url) /\ ~hasFacade(sub[k + 1].url)

(***************************************************************************)
(* C17: the facade of an opportunity is a link to the first facade of the  *)
(* list of its product, by its name and its repository, whatever facades   *)
(* follow it in the list.                                                  *)
(***************************************************************************)
C17_FirstFacadeSuggested ==
  Failed =>
    \A a \in 1..Len(Opportunities) :
      /\ Opportunities[a].facade.type = "link"
      /\ Opportunities[a].facade.text = Head(Facades(Opportunities[a].productName)).name
      /\ Opportunities[a].facade.url = Head(Facades(Opportunities[a].productName)).repo

C17_Witness ==
  /\ Failed
  /\ \E a \in 1..Len(Opportunities) :
       LET facades == Facades(Opportunities[a].productName)
       IN /\ Len(facades) >= 2
          /\ Opportunities[a].facade.text = facades[1].name
          /\ Opportunities[a].facade.text # facades[2].name
          /\ Opportunities[a].facade.url # facades[2].repo

(***************************************************************************)
(* C18: a record whose url has no entity or is first-party is skipped by   *)
(* both loops: its step leaves the sets as they are (no set created, no    *)
(* cutoffTime changed, no member added), and no set ever is the set of     *)
(* its product or has it as a member.                                      *)
(***************************************************************************)
SkippedStep ==
  (pc \in {"pass1", "pass2"} /\ ~ThirdParty(byURL[i].key))
    => entitySummaries' = entitySummaries

NoSkippedRecordInSets ==
  \A ps \in AllSets :
    /\ \A u \in MemberURLs(ps) : ThirdParty(u)
    /\ \A j \in 1..Len(byURL) :
         ~ThirdParty(byURL[j].key) => getProduct(byURL[j].key) # ps.product

C18_UnclassifiableRecordsSkipped == [][SkippedStep]_vars /\ []NoSkippedRecordInSets

\* a first-party record with a facade and a record without entity, both
\* started after the cutoff of a set
C18_Witness ==
  /\ pc = "done"
  /\ \E ps \in AllSets : \E j, l \in 1..Len(byURL) :
       /\ isFirstParty(byURL[j].key, mainEntity) /\ hasFacade(byURL[j].key)
       /\ getEntity(byURL[l].key) = None
       /\ byURL[j].value.firstStartTime >= ps.cutoffTime
       /\ byURL[l].value.firstStartTime >= ps.cutoffTime
       /\ byURL[j].key \notin MemberURLs(ps)
       /\ byURL[l].key \notin MemberURLs(ps)

(***************************************************************************)
(* C19: a step of the first loop never raises the cutoffTime of a set:     *)
(* an own record of the product whose headers were received earlier        *)
(* lowers it to that time, any other record leaves it as it is.            *)
(***************************************************************************)
OwnRecordStep(ps) ==
  /\ ThirdParty(byURL[i].key)
  /\ hasFacade(byURL[i].key)
  /\ getProduct(byURL[i].key) = ps.product

CutoffStep ==
  pc = "pass1" =>
    \A ps \in AllSets : \E ps2 \in AllSets' :
      /\ ps2.product = ps.product
      /\ ps2.cutoffTime <= ps.cutoffTime
      /\ ps2.cutoffTime =
           IF OwnRecordStep(ps) /\ byURL[i].value.firstEndTime < ps.cutoffTime
           THEN byURL[i].value.firstEndTime
           ELSE ps.cutoffTime

C19_CutoffNeverRaised == [][CutoffStep]_vars

\* in the middle of the first loop, the second own record has lowered the cutoff
C19_Witness ==
  /\ pc = "pass1"
  /\ \E ps \in AllSets :
       /\ Len(ps.urlSummaries) = 2
       /\ ps.cutoffTime = ps.urlSummaries[2].value.firstEndTime
       /\ ps.cutoffTime < ps.urlSummaries[1].value.firstEndTime

(***************************************************************************)
(* C21: the loops only read the mapping of urls to records (no step of     *)
(* them adds, removes or replaces an entry of it), and the aggregation     *)
(* only reads the sets (its step leaves every cutoffTime and every member  *)
(* as the loops left them).                                                *)
(***************************************************************************)
FrameStep ==
  /\ pc \in {"pass1", "pass2", "audit"} => byURL' = byURL
  /\ pc = "audit" => /\ entitySummaries' = entitySummaries
                      /\ AllSets' = AllSets

MappingAsSummarized == pc # "summaries" => byURL = getSummaries(networkRecords)

C21_PassesAndAggregationOnlyRead == [][FrameStep]_vars /\ []MappingAsSummarized

\* the audit has returned; two sets, one of them with a member from the
\* second loop, and the mapping of three records are still in place
C21_Witness ==
  /\ Failed
  /\ Len(byURL) = 3
  /\ Cardinality(AllSets) = 2
  /\ \E ps \in AllSets : Len(ps.urlSummaries) = 2 /\ ps.cutoffTime < Infinity

(***************************************************************************)
(* C22: in every set every url is a member at most once, and so a          *)
(* sub-item of the opportunity at most once; the total of the opportunity  *)
(* counts the record of every member url once.                             *)
(***************************************************************************)
C22_UrlAtMostOnceInSet ==
  /\ \A ps \in AllSets :
       \A k, l \in 1..Len(ps.urlSummaries) :
         ps.urlSummaries[k].key = ps.urlSummaries[l].key => k = l
  /\ Failed =>
       \A a \in 1..Len(Opportunities) :
         LET opp == Opportunities[a]
         IN /\ \A k, l \in 1..Len(opp.subItems) :
                 opp.subItems[k].url = opp.subItems[l].url => k = l
            /\ opp.transferSize
                 = SizeOfUrls({opp.subItems[k].url : k \in 1..Len(opp.subItems)})
            /\ opp.blockingTime
                 = TimeOfUrls({opp.subItems[k].url : k \in 1..Len(opp.subItems)})

\* an own record that started when its headers arrived, so that its start
\* reaches the cutoff of its own set, and a resource fetched twice
C22_Witness ==
  /\ Failed
  /\ \E ps \in AllSets : \E k, l \in 1..Len(ps.urlSummaries) :
       /\ hasFacade(ps.urlSummaries[k].key)
       /\ ps.urlSummaries[k].value.firstStartTime >= ps.cutoffTime
       /\ ~hasFacade(ps.urlSummaries[l].key)
       /\ Cardinality(RequestsOf(ps.urlSummaries[l].key)) = 2
       /\ Len(OpportunityOf(ps.product).subItems) = 2

(***************************************************************************)
(* C23: every member of a set is of the entity of the product of the set,  *)
(* whenever it started; an entity without a record whose product has a     *)
(* facade has no set and no opportunity.                                   *)
(***************************************************************************)
Entities == {getEntity(u) : u \in URLs} \ {None}

HasFacadableRecord(entity) ==
  \E j \in 1..Len(byURL) :
    /\ ThirdParty(byURL[j].key)
    /\ getEntity(byURL[j].key) = entity
    /\ hasFacade(byURL[j].key)

C23_AttributionStaysInEntity ==
  pc # "summaries" =>
    /\ \A ps \in AllSets : \A u \in MemberURLs(ps) :
         getEntity(u) = ProductEntity(ps.product)
    /\ \A e \in Entities :
         ~HasFacadableRecord(e) =>
           /\ SetsOfEntity(e) = {}
           /\ Failed => \A a \in 1..Len(Opportunities) :
                          ProductEntity(Opportunities[a].productName) # e

\* a resource of an entity without facadable record starts after the cutoff
\* of the set of another entity
C23_Witness ==
  /\ Failed
  /\ \E ps \in AllSets : \E r \in ResourceURLs :
       /\ getEntity(r) # ProductEntity(ps.product)
       /\ ~HasFacadableRecord(getEntity(r))
       /\ MapGet(byURL, r).firstStartTime >= ps.cutoffTime
       /\ r \notin MemberURLs(ps)

(***************************************************************************)
(* C28: members, cutoffTime and totals of the sets are determined by the   *)
(* entries of the mapping taken as a set, whatever their order: the        *)
(* cutoff is Math.min over the own records, the members are the own        *)
(* records and the records without facade of the entity that do not start  *)
(* before it, also those that the mapping lists ahead of the own records.  *)
(***************************************************************************)
CutoffOf(product) ==
  LET ends == {byURL[j].value.firstEndTime : j \in OwnRecords(product)}
  IN IF NaN \in ends THEN NaN ELSE SetMin(ends)

MembersOf(product) ==
  OwnURLs(product) \cup
    {byURL[j].key : j \in {l \in 1..Len(byURL) :
        /\ ThirdParty(byURL[l].key)
        /\ ~hasFacade(byURL[l].key)
        /\ getEntity(byURL[l].key) = ProductEntity(product)
        /\ ~JsLess(byURL[l].value.firstStartTime, CutoffOf(product))}}

FacadableProducts ==
  {getProduct(byURL[j].key) :
     j \in {l \in 1..Len(byURL) : ThirdParty(byURL[l].key) /\ hasFacade(byURL[l].key)}}

C28_ResultIndependentOfMappingOrder ==
  /\ Pass2Done =>
       /\ {ps.product : ps \in AllSets} = FacadableProducts
       /\ \A ps \in AllSets :
            /\ ps.cutoffTime = CutoffOf(ps.product)
            /\ MemberURLs(ps) = MembersOf(ps.product)
  /\ Failed =>
       \A a \in 1..Len(Opportunities) :
         /\ Opportunities[a].transferSize = SizeOfUrls(MembersOf(Opportunities[a].productName))
         /\ Opportunities[a].blockingTime = TimeOfUrls(MembersOf(Opportunities[a].productName))

\* a resource that the mapping lists ahead of the own record of the product
\* and that starts after its cutoff is a member
C28_Witness ==
  /\ Failed
  /\ \E ps \in AllSets : \E j, k \in 1..Len(byURL) :
       /\ j < k
       /\ ~hasFacade(byURL[j].key)
       /\ k = ProductFirstIndex(ps.product)
       /\ ps.cutoffTime # NaN
       /\ byURL[j].value.firstStartTime # NaN
       /\ byURL[j].value.firstStartTime >= ps.cutoffTime
       /\ byURL[j].key \in MemberURLs(ps)

(***************************************************************************)
(* C29: a record whose product has a facade is a member of the set of its  *)
(* product, whether it starts before or after the cutoff, and of no other  *)
(* set, also when it starts after the cutoff of a sibling product; every   *)
(* set has an own record of its product among its members.                 *)
(***************************************************************************)
C29_OwnRecordInOwnSetOnly ==
  Pass1Done =>
    /\ \A j \in 1..Len(byURL) :
         (ThirdParty(byURL[j].key) /\ hasFacade(byURL[j].key)) =>
           \A ps \in AllSets :
             byURL[j].key \in MemberURLs(ps) <=> ps.product = getProduct(byURL[j].key)
    /\ \A ps \in AllSets :
         \E u \in MemberURLs(ps) : hasFacade(u) /\ getProduct(u) = ps.product

\* the own record of a product starts after the cutoff of a sibling product
\* and before the cutoff of its own set
C29_Witness ==
  /\ Failed
  /\ \E ps, sibling \in AllSets : \E j \in OwnRecords(ps.product) :
       /\ sibling.product # ps.product
       /\ ProductEntity(sibling.product) = ProductEntity(ps.product)
       /\ byURL[j].value.firstStartTime >= sibling.cutoffTime
       /\ byURL[j].value.firstStartTime < ps.cutoffTime
       /\ byURL[j].key \in MemberURLs(ps)
       /\ byURL[j].key \notin MemberURLs(sibling)

(***************************************************************************)
(* C30: the cutoffTime of a set is the least firstEndTime of the own       *)
(* records of its product that have one (an own record without             *)
(* firstEndTime leaves it alone), and a record without facade that starts  *)
(* before it is not a member.                                              *)
(***************************************************************************)
DefinedEnds(product) ==
  {byURL[j].value.firstEndTime : j \in OwnRecords(product)} \ {NaN}

C30_MissingEndTimeLeavesCutoff ==
  Pass2Done =>
    \A ps \in AllSets :
      /\ ps.cutoffTime =
           IF DefinedEnds(ps.product) = {} THEN Infinity ELSE SetMin(DefinedEnds(ps.product))
      /\ \A u \in MemberURLs(ps) :
           (~hasFacade(u) /\ DefinedEnds(ps.product) # {}) =>
             ~JsLess(MapGet(byURL, u).firstStartTime, SetMin(DefinedEnds(ps.product)))

(***************************************************************************)
(* C24: the has-inspector-issues audit scores 1 exactly when it lists no   *)
(* item and 0 when it lists one or more; with the five lists of issues     *)
(* empty it scores 1 and lists nothing.                                    *)
(***************************************************************************)
Issues == artifacts.InspectorIssues

IssuesGathered ==
  Len(Issues.sameSiteCookies) + Len(Issues.mixedContent) + Len(Issues.blockedByResponse)
    + Len(Issues.heavyAds) + Len(Issues.contentSecurityPolicy)

C24_PassesIffNoItem ==
  pc = "done" =>
    /\ auditProduct.score \in {0, 1}
    /\ auditProduct.score = 1 <=> auditProduct.details.items = <<>>
    /\ Len(auditProduct.details.items) >= 1 => auditProduct.score = 0
    /\ IssuesGathered = 0 =>
         auditProduct.score = 1 /\ Len(auditProduct.details.items) = 0

\* issues were gathered, none of them is listed, and the audit passes
C24_Witness ==
  /\ pc = "done"
  /\ IssuesGathered > 0
  /\ auditProduct.details.items = <<>>
  /\ auditProduct.score = 1

(***************************************************************************)
(* C25: the audit lists one item for every sameSiteCookies, mixedContent,  *)
(* blockedByResponse and heavyAds issue, and one for every                 *)
(* contentSecurityPolicy issue whose violation type is neither             *)
(* kTrustedTypesSinkViolation nor kTrustedTypesPolicyViolation; the other  *)
(* contentSecurityPolicy issues are dropped, and with only such issues     *)
(* the list is empty and the score is 1.                                   *)
(***************************************************************************)
ItemsOfType(type) ==
  Cardinality({k \in 1..Len(auditProduct.details.items) :
                 auditProduct.details.items[k].issueType = type})

SupportedCsp ==
  {k \in 1..Len(Issues.contentSecurityPolicy) :
     Issues.contentSecurityPolicy[k].contentSecurityPolicyViolationType
       \notin {"kTrustedTypesSinkViolation", "kTrustedTypesPolicyViolation"}}

C25_OneItemPerSupportedIssue ==
  pc = "done" =>
    /\ ItemsOfType("SameSiteCookie") = Len(Issues.sameSiteCookies)
    /\ ItemsOfType("MixedContent") = Len(Issues.mixedContent)
    /\ ItemsOfType("BlockedByResponse") = Len(Issues.blockedByResponse)
    /\ ItemsOfType("HeavyAds") = Len(Issues.heavyAds)
    /\ ItemsOfType("ContentSecurityPolicy") = Cardinality(SupportedCsp)
    /\ Len(auditProduct.details.items)
         = Len(Issues.sameSiteCookies) + Len(Issues.mixedContent)
             + Len(Issues.blockedByResponse) + Len(Issues.heavyAds)
             + Cardinality(SupportedCsp)
    /\ (IssuesGathered = Len(Issues.contentSecurityPolicy) /\ SupportedCsp = {}) =>
         auditProduct.details.items = <<>> /\ auditProduct.score = 1

\* a supported and an unsupported contentSecurityPolicy issue next to issues
\* of the four other kinds
C25_Witness ==
  /\ pc = "done"
  /\ Len(Issues.contentSecurityPolicy) = 2
  /\ Cardinality(SupportedCsp) = 1
  /\ Len(Issues.sameSiteCookies) >= 1 /\ Len(Issues.mixedContent) >= 1
  /\ Len(Issues.blockedByResponse) >= 1 /\ Len(Issues.heavyAds) >= 1
  /\ Len(auditProduct.details.items) = IssuesGathered - 1
  /\ auditProduct.score = 0

(***************************************************************************)
(* C26: when the trace elements hold no LCP element, or no request of the  *)
(* graph is one to preload, the preload-LCP audit returns score 1 and      *)
(* notApplicable and nothing else; the waste is computed only for an LCP   *)
(* url that is not empty.                                                  *)
(***************************************************************************)
RedirectCount == IF "redirects" \in DOMAIN mainResource THEN Len(mainResource.redirects) ELSE 0

NetworkInitiators(node) ==
  Cardinality({k \in 2..Len(node.traversalPath) : node.traversalPath[k] = "network"})

\* the request of node is the LCP image, not preloaded, fetched over the
\* network, deeper than the redirects and in the frame of the main resource
RequestToPreload(node, imageSource) ==
  /\ node.record.url = imageSource
  /\ ~node.record.isLinkPreload
  /\ node.record.protocol \notin NON_NETWORK_PROTOCOLS
  /\ NetworkInitiators(node) > RedirectCount
  /\ node.record.frameId = mainResource.frameId

NoLcpElement ==
  \A k \in 1..Len(artifacts.TraceElements) :
    artifacts.TraceElements[k].traceEventType # "largest-contentful-paint"

NoRequestToPreload ==
  \/ NoLcpElement
  \/ \A k \in 1..Len(graph) :
       graph[k].type # "network" \/ ~RequestToPreload(graph[k], lcpElement[1].imageSource)

NotApplicable == auditProduct = [score |-> 1, notApplicable |-> TRUE]

C26_NotApplicableWithoutLcpRequest ==
  pc = "done" =>
    /\ NoRequestToPreload => NotApplicable /\ "details" \notin DOMAIN auditProduct
    /\ ~NotApplicable => lcpUrl # None /\ lcpUrl # ""

\* there is an LCP element and there are network requests, one of them for
\* the LCP image, but none is to be preloaded
C26_Witness ==
  /\ pc = "done"
  /\ ~NoLcpElement
  /\ NoRequestToPreload
  /\ \E k \in 1..Len(graph) :
       graph[k].type = "network" /\ graph[k].record.url = lcpElement[1].imageSource
  /\ NotApplicable

(***************************************************************************)
(* C27: shouldPreloadRequest is true exactly when the url of the request   *)
(* is the LCP image source, the request is no link preload, its protocol   *)
(* is a network protocol, its network initiators are more than the         *)
(* redirects of the main resource (none when it has no redirects) and its  *)
(* frame is the frame of the main resource.                                *)
(***************************************************************************)
C27_ShouldPreloadIffAllFive ==
  /\ shouldPreloadRequest(graph[1].record, mainResource, initiatorPath(graph[1]),
                          lcpElement[1].imageSource)
       <=> RequestToPreload(graph[1], lcpElement[1].imageSource)
  /\ pc \in {"result", "done"} =>
       IF RequestToPreload(graph[1], lcpElement[1].imageSource)
       THEN lcpUrl = graph[1].record.url
       ELSE lcpUrl = None

\* one redirect and two network initiators: the request is to be preloaded
C27_Witness ==
  /\ pc = "done"
  /\ RedirectCount = 1
  /\ NetworkInitiators(graph[1]) = 2
  /\ RequestToPreload(graph[1], lcpElement[1].imageSource)
  /\ lcpUrl = "img"

====
